---- MODULE Spec2Model ----
(***************************************************************************)
(* Model of the SITL instance lifecycle: SITLManager (app/sitl/manager.py) *)
(* on top of PX4Engine (app/sitl/px4_engine.py).                           *)
(*                                                                         *)
(* Request threads call the manager (start_instance, stop_instance,        *)
(* cleanup, get_engine_status); every successful engine start spawns one   *)
(* monitor thread.  Threads interleave between the statements of           *)
(* PX4Engine.stop_instance and around every blocking call (process spawn,  *)
(* startup window, termination wait, monitor sleep).  The manager lock is  *)
(* a threading.Lock: it is not re-entrant.  The engine has no lock.        *)
(***************************************************************************)
EXTENDS Integers, FiniteSets, Sequences, TLC

\* ------------------------------------------------------------------ bounds
NumThreads == 2
NumIds == 4
NumPorts == 3
MaxStarts == 3
MaxCalls == 4
MaxOverlap == 1
MaxDeaths == 1
MaxTermObjs == 1
MaxReadObjs == 1

\* first port of range(14550, 14600)
PortBase == 14550

Threads == 1..NumThreads
Objs == 1..MaxStarts
Ids == 1..NumIds
Mon(k) == NumThreads + k
Monitors == {Mon(k) : k \in Objs}
Agents == Threads \cup Monitors

\* self.available_ports = set(range(14550, 14600)), cut to NumPorts ports
available_ports == PortBase..(PortBase + NumPorts - 1)

VARIABLES
    instances,          \* PX4Engine.instances: id -> instance object (0: no such key)
    used_ports,         \* PX4Engine.used_ports
    instance_registry,  \* SITLManager.instance_registry: id -> engine name ("": no such key)
    lock,               \* SITLManager.lock: 0 free, else the thread holding it
    nobj,               \* number of PX4 processes spawned that survived the startup window
    ncalls,             \* number of manager operations requested so far (bounds the run)
    nover,              \* number of them that arrived while another was being served
    ndeaths,            \* number of processes that exited on their own so far (bounds the run)
    inst,               \* the PX4Instance objects: instance_id, port, status
    procs,              \* the OS processes of each object: px4, router
    pc,                 \* position of every thread (request threads and monitors)
    cid,                \* local instance_id of the call an agent is in
    obj,                \* local `instance` (stop, monitor) / px4_process (start)
    port,               \* local `port` of start_instance (0: not bound)
    avt,                \* local aircraft_type of start_instance: is it in the catalog
    todo,               \* the ids a loop of the thread still has to visit
    cont,               \* which caller stop_instance returns to
    result,             \* per request thread: what the step just taken returned or
                        \* raised to the caller of its manager operation (NoResult:
                        \* the step returned nothing)
    dead_objs,          \* per request thread in list_instances: the objects its
                        \* first loop found with an exited process
    signalled,          \* per process: the strongest signal its group was sent
    di_used             \* per request thread iterating a dict: its size when the
                        \* iterator was created

vars == <<instances, used_ports, instance_registry, lock, nobj, ncalls, nover, ndeaths, inst, procs,
          pc, cid, obj, port, avt, todo, cont, result, dead_objs, signalled, di_used>>

\* the variables that only the detailed termination steps and the read
\* operations of the manager write
readVars == <<signalled, di_used>>

engineVars == <<instances, used_ports, nobj, inst, procs>>

\* ------------------------------------------------------------ data helpers
Min(S) == CHOOSE x \in S : \A y \in S : x <= y

\* instance_id in self.instances
InInstances(id) == instances[id] # 0

\* engine_type in self.engines: __init__ registers the one engine 'px4'
HasEngineMutAny(e) == TRUE
HasEngine(e) == e = "px4"

\* instance_id in self.instance_registry
InRegistry(id) == instance_registry[id] # ""

\* SITLManager.stop_instance lines 106-107: `if success: del
\* self.instance_registry[instance_id]`
UnmappedMutAlways(reg, id, success) == [reg EXCEPT ![id] = ""]
Unmapped(reg, id, success) == IF success THEN [reg EXCEPT ![id] = ""] ELSE reg

\* the keys of self.instances / self.instance_registry
InstanceKeys == {id \in Ids : instances[id] # 0}
RegistryKeys == {id \in Ids : instance_registry[id] # ""}

\* process.poll() is None
Running(k, which) == procs[k][which] = "alive"

\* px4_running and mavlink_running of the monitor and of _cleanup_dead_instances
BothRunning(k) == Running(k, "px4") /\ Running(k, "router")

\* _terminate_process: SIGTERM to the group, wait 5 s, SIGKILL and wait; a
\* process that has exited already is left alone
Terminated(p, k, which) ==
    IF p[k][which] = "alive" THEN [p EXCEPT ![k][which] = "dead"] ELSE p

\* get_next_available_port: min(self.available_ports - self.used_ports)
NextPortMutMax(used) ==
    CHOOSE x \in available_ports \ used : \A y \in available_ports \ used : x >= y
NextPort(used) == Min(available_ports \ used)

\* release_port: self.used_ports.discard(port)
ReleasedMutKeep(used, p) == used
ReleasedMutToggle(used, p) == IF p \in used THEN used \ {p} ELSE used \cup {p}
Released(used, p) == used \ {p}

\* no call returns in this step / the call of thread t returns in this step:
\* op the operation, id its instance id, val the value or the error, p the port
\* the call had acquired, known whether its aircraft type is in the catalog
NoResult == [op |-> "none", id |-> 0, val |-> "none", port |-> 0, known |-> TRUE]
NoReturn == [t \in Threads |-> NoResult]
Returned(t, o, i, v, p, kn) ==
    [NoReturn EXCEPT ![t] = [op |-> o, id |-> i, val |-> v, port |-> p, known |-> kn]]
Returns(t, o, i, v, p) == Returned(t, o, i, v, p, TRUE)

\* A PX4Instance object that neither the table nor a local variable of a thread
\* refers to is garbage: its fields can no longer be read
Collect(i, ins, ob) ==
    [k \in Objs |->
        IF (\E id \in Ids : ins[id] = k) \/ (\E a \in Agents : ob[a] = k)
          THEN i[k]
          ELSE [instance_id |-> 0, port |-> 0, status |-> "none"]]

\* A request arrives at thread t: the run has room for MaxCalls requests, of
\* which MaxOverlap may arrive while another thread is serving one
Overlaps(t) == \E u \in Threads \ {t} : pc[u] # "idle"
Arrive(t) ==
    /\ ncalls < MaxCalls
    /\ ncalls' = ncalls + 1
    /\ Overlaps(t) => nover < MaxOverlap
    /\ nover' = IF Overlaps(t) THEN nover + 1 ELSE nover
    /\ UNCHANGED ndeaths

Init ==
    /\ instances = [id \in Ids |-> 0]
    /\ used_ports = {}
    /\ instance_registry = [id \in Ids |-> ""]
    /\ lock = 0
    /\ nobj = 0
    /\ ncalls = 0
    /\ nover = 0
    /\ ndeaths = 0
    /\ inst = [k \in Objs |-> [instance_id |-> 0, port |-> 0, status |-> "none"]]
    /\ procs = [k \in Objs |-> [px4 |-> "none", router |-> "none"]]
    /\ pc = [a \in Agents |-> IF a \in Threads THEN "idle" ELSE "m_none"]
    /\ cid = [a \in Agents |-> 0]
    /\ obj = [a \in Agents |-> 0]
    /\ port = [t \in Threads |-> 0]
    /\ avt = [t \in Threads |-> TRUE]
    /\ todo = [t \in Threads |-> {}]
    /\ cont = [a \in Agents |-> IF a \in Threads THEN "none" ELSE "monitor"]
    /\ result = NoReturn
    /\ dead_objs = [t \in Threads |-> {}]
    /\ signalled = [k \in Objs |-> [px4 |-> "none", router |-> "none"]]
    /\ di_used = [t \in Threads |-> 0]

\* ------------------------------------------------- PX4Engine.stop_instance
\* What the caller of stop_instance does with its outcome v: "true", "false",
\* or "KeyError" (line 284, outside the try, when the key went away after the
\* membership test of line 280).
\*   monitor    _monitor_instance: break (an exception ends the thread)
\*   mgr_stop   SITLManager.stop_instance: on success delete the mapping entry;
\*              the except clause turns an exception into False; the lock is
\*              released when the with block is left
\*   mgr_all    the same, called from SITLManager.stop_all_instances
\*   prune      _cleanup_dead_instances: exceptions are logged, next id
\*   engine_all PX4Engine.stop_all_instances: exceptions propagate
StopReturn(a, v) ==
    /\ cid' = [cid EXCEPT ![a] = 0]
    /\ obj' = [obj EXCEPT ![a] = 0]
    /\ CASE cont[a] = "monitor" ->
              /\ pc' = [pc EXCEPT ![a] = IF v = "KeyError" THEN "m_raised" ELSE "m_done"]
              /\ result' = NoReturn
              /\ UNCHANGED <<lock, instance_registry, todo, cont>>
         [] cont[a] = "mgr_stop" ->
              /\ instance_registry' = Unmapped(instance_registry, cid[a], v = "true")
              /\ lock' = 0
              /\ pc' = [pc EXCEPT ![a] = "idle"]
              /\ result' = Returns(a, "stop", cid[a], IF v = "true" THEN "true" ELSE "false", 0)
              /\ cont' = [cont EXCEPT ![a] = "none"]
              /\ UNCHANGED todo
         [] cont[a] = "mgr_all" ->
              /\ instance_registry' = Unmapped(instance_registry, cid[a], v = "true")
              /\ lock' = 0
              /\ pc' = [pc EXCEPT ![a] = "sa_call"]
              /\ result' = NoReturn
              /\ cont' = [cont EXCEPT ![a] = "none"]
              /\ UNCHANGED todo
         [] cont[a] = "prune" ->
              /\ pc' = [pc EXCEPT ![a] = "pr_loop"]
              /\ result' = NoReturn
              /\ cont' = [cont EXCEPT ![a] = "none"]
              /\ UNCHANGED <<lock, instance_registry, todo>>
         [] cont[a] = "engine_all" ->
              /\ pc' = [pc EXCEPT ![a] = IF v = "KeyError" THEN "idle" ELSE "ea_loop"]
              /\ result' = IF v = "KeyError" THEN Returns(a, "cleanup", 0, "KeyError", 0)
                                             ELSE NoReturn
              /\ todo' = [todo EXCEPT ![a] = IF v = "KeyError" THEN {} ELSE @]
              /\ cont' = [cont EXCEPT ![a] = "none"]
              /\ UNCHANGED <<lock, instance_registry>>

\* line 280: if instance_id not in self.instances: return False
StopCheck(a) ==
    /\ pc[a] = "s_check"
    /\ IF InInstances(cid[a])
         THEN /\ pc' = [pc EXCEPT ![a] = "s_read"]
              /\ result' = NoReturn
              /\ UNCHANGED <<lock, instance_registry, todo, cont, cid, obj>>
         ELSE StopReturn(a, "false")
    /\ UNCHANGED <<engineVars, port, avt>>
    /\ UNCHANGED <<ncalls, nover, ndeaths>>
    /\ UNCHANGED readVars
    /\ UNCHANGED dead_objs

\* line 284: instance = self.instances[instance_id]
StopRead(a) ==
    /\ pc[a] = "s_read"
    /\ IF InInstances(cid[a])
         THEN /\ pc' = [pc EXCEPT ![a] = "s_term"]
              /\ obj' = [obj EXCEPT ![a] = instances[cid[a]]]
              /\ result' = NoReturn
              /\ UNCHANGED <<lock, instance_registry, todo, cont, cid>>
         ELSE StopReturn(a, "KeyError")
    /\ UNCHANGED <<engineVars, port, avt>>
    /\ UNCHANGED <<ncalls, nover, ndeaths>>
    /\ UNCHANGED readVars
    /\ UNCHANGED dead_objs

\* lines 289-294: self._terminate_process(instance.mavlink_router_process),
\* then self._terminate_process(instance.process).  Both touch only the
\* processes of the object this stop holds, and every reader of an instance's
\* processes asks whether both are running: one step.
StopTerminate(a) ==
    /\ pc[a] = "s_term"
    /\ procs' = Terminated(Terminated(procs, obj[a], "router"), obj[a], "px4")
    /\ pc' = [pc EXCEPT ![a] = "s_release"]
    /\ result' = NoReturn
    /\ UNCHANGED <<instances, used_ports, nobj, inst, lock, instance_registry,
                   todo, cont, cid, obj, port, avt>>
    /\ UNCHANGED <<ncalls, nover, ndeaths>>
    /\ UNCHANGED readVars
    /\ UNCHANGED dead_objs

\* line 297: self.release_port(instance.port)
StopRelease(a) ==
    /\ pc[a] = "s_release"
    /\ used_ports' = Released(used_ports, inst[obj[a]].port)
    /\ pc' = [pc EXCEPT ![a] = "s_del"]
    /\ result' = NoReturn
    /\ UNCHANGED <<instances, nobj, inst, procs, lock, instance_registry,
                   todo, cont, cid, obj, port, avt>>
    /\ UNCHANGED <<ncalls, nover, ndeaths>>
    /\ UNCHANGED readVars
    /\ UNCHANGED dead_objs

\* line 300: del self.instances[instance_id]; return True.  A KeyError is
\* caught by the except clause of line 305: return False
StopDel(a) ==
    /\ pc[a] = "s_del"
    /\ IF InInstances(cid[a])
         THEN /\ instances' = [instances EXCEPT ![cid[a]] = 0]
              /\ StopReturn(a, "true")
         ELSE /\ UNCHANGED instances
              /\ StopReturn(a, "false")
    /\ inst' = Collect(inst, instances', obj')
    /\ UNCHANGED <<used_ports, nobj, procs, port, avt>>
    /\ UNCHANGED <<ncalls, nover, ndeaths>>
    /\ UNCHANGED readVars
    /\ UNCHANGED dead_objs

\* ----------------------------------------------- PX4Engine._monitor_instance
\* line 332: while instance_id in self.instances
MonitorCheck(k) ==
    /\ pc[Mon(k)] = "m_check"
    /\ IF InInstances(cid[Mon(k)])
         THEN /\ pc' = [pc EXCEPT ![Mon(k)] = "m_read"]
              /\ UNCHANGED cid
         ELSE /\ pc' = [pc EXCEPT ![Mon(k)] = "m_done"]
              /\ cid' = [cid EXCEPT ![Mon(k)] = 0]
    /\ result' = NoReturn
    /\ UNCHANGED <<engineVars, lock, instance_registry, todo, cont, obj, port, avt>>
    /\ UNCHANGED <<ncalls, nover, ndeaths>>
    /\ UNCHANGED readVars
    /\ UNCHANGED dead_objs

\* line 333: instance = self.instances[instance_id]; a KeyError ends the thread
MonitorRead(k) ==
    /\ pc[Mon(k)] = "m_read"
    /\ IF InInstances(cid[Mon(k)])
         THEN /\ pc' = [pc EXCEPT ![Mon(k)] = "m_poll"]
              /\ obj' = [obj EXCEPT ![Mon(k)] = instances[cid[Mon(k)]]]
              /\ UNCHANGED cid
         ELSE /\ pc' = [pc EXCEPT ![Mon(k)] = "m_raised"]
              /\ cid' = [cid EXCEPT ![Mon(k)] = 0]
              /\ UNCHANGED obj
    /\ result' = NoReturn
    /\ UNCHANGED <<engineVars, lock, instance_registry, todo, cont, port, avt>>
    /\ UNCHANGED <<ncalls, nover, ndeaths>>
    /\ UNCHANGED readVars
    /\ UNCHANGED dead_objs

\* lines 336-364: poll both processes; if one is gone set status "failed" and
\* call stop_instance, else heartbeat, "starting" -> "running", sleep 5 s
MonitorPoll(k) ==
    /\ pc[Mon(k)] = "m_poll"
    /\ obj' = [obj EXCEPT ![Mon(k)] = 0]
    /\ IF BothRunning(obj[Mon(k)])
         THEN /\ inst' = Collect([inst EXCEPT ![obj[Mon(k)]].status =
                                    IF @ = "starting" THEN "running" ELSE @],
                                 instances, obj')
              /\ pc' = [pc EXCEPT ![Mon(k)] = "m_check"]
         ELSE /\ inst' = Collect([inst EXCEPT ![obj[Mon(k)]].status = "failed"],
                                 instances, obj')
              /\ pc' = [pc EXCEPT ![Mon(k)] = "s_check"]
    /\ result' = NoReturn
    /\ UNCHANGED <<instances, used_ports, nobj, procs, lock, instance_registry,
                   todo, cont, cid, port, avt>>
    /\ UNCHANGED <<ncalls, nover, ndeaths>>
    /\ UNCHANGED readVars
    /\ UNCHANGED dead_objs

\* --------------------------------------------- start_instance (both layers)
\* The except clause of PX4Engine.start_instance (lines 167-170) releases the
\* port and re-raises; SITLManager.start_instance re-raises (lines 82-84) and
\* the with block releases the lock.
StartFail(t, err) ==
    /\ used_ports' = Released(used_ports, port[t])
    /\ lock' = 0
    /\ pc' = [pc EXCEPT ![t] = "idle"]
    /\ result' = Returned(t, "start", cid[t], err, port[t], avt[t])
    /\ port' = [port EXCEPT ![t] = 0]
    /\ cid' = [cid EXCEPT ![t] = 0]
    /\ obj' = [obj EXCEPT ![t] = 0]
    /\ avt' = [avt EXCEPT ![t] = TRUE]

\* SITLManager.start_instance lines 58-74 and PX4Engine.start_instance lines
\* 126-133: take the lock, check the engine type and the id, acquire a port.
\* When no port is free get_next_available_port raises RuntimeError inside the
\* try; `port` is then unbound and the handler's release_port(port) raises
\* UnboundLocalError, which is what the caller receives.
MgrStart(t, engine_type, known_aircraft, id) ==
    /\ pc[t] = "idle"
    /\ lock = 0
    /\ IF ~HasEngine(engine_type)
         THEN /\ result' = Returned(t, "start", id, "UnknownEngine", 0, known_aircraft)
              /\ UNCHANGED <<used_ports, lock, pc, port, cid, avt>>
         ELSE IF InRegistry(id) \/ InInstances(id)
         THEN /\ result' = Returned(t, "start", id, "DuplicateInstance", 0, known_aircraft)
              /\ UNCHANGED <<used_ports, lock, pc, port, cid, avt>>
         ELSE IF available_ports \ used_ports = {}
         THEN /\ result' = Returned(t, "start", id, "UnboundLocalError", 0, known_aircraft)
              /\ UNCHANGED <<used_ports, lock, pc, port, cid, avt>>
         ELSE /\ used_ports' = used_ports \cup {NextPort(used_ports)}
              /\ port' = [port EXCEPT ![t] = NextPort(used_ports)]
              /\ lock' = t
              /\ pc' = [pc EXCEPT ![t] = "es_px4"]
              /\ cid' = [cid EXCEPT ![t] = id]
              /\ avt' = [avt EXCEPT ![t] = known_aircraft]
              /\ result' = NoReturn
    /\ UNCHANGED <<instances, nobj, inst, procs, instance_registry, obj, todo, cont>>
    /\ Arrive(t)
    /\ UNCHANGED readVars
    /\ UNCHANGED dead_objs

\* _start_px4_process lines 175-215: an aircraft type that is not in the
\* catalog raises ValueError before anything is spawned; else the process
\* is spawned
StartPx4(t) ==
    /\ pc[t] = "es_px4"
    /\ IF ~avt[t]
         THEN /\ StartFail(t, "UnknownVehicleType")
              /\ UNCHANGED <<nobj, procs>>
         ELSE /\ nobj < MaxStarts
              /\ nobj' = nobj + 1
              /\ procs' = [procs EXCEPT ![nobj + 1].px4 = "alive"]
              /\ obj' = [obj EXCEPT ![t] = nobj + 1]
              /\ pc' = [pc EXCEPT ![t] = "es_window"]
              /\ result' = NoReturn
              /\ UNCHANGED <<used_ports, lock, port, cid, avt>>
    /\ UNCHANGED <<instances, inst, instance_registry, todo, cont>>
    /\ UNCHANGED <<ncalls, nover, ndeaths>>
    /\ UNCHANGED readVars
    /\ UNCHANGED dead_objs

\* _start_px4_process lines 219-234: the process is polled for 10 s;
\* RuntimeError("PX4 process failed to start") if it has exited
StartWindow(t) ==
    /\ pc[t] = "es_window"
    /\ IF ~Running(obj[t], "px4")
         THEN StartFail(t, "LaunchFailed")
         ELSE /\ pc' = [pc EXCEPT ![t] = "es_router"]
              /\ result' = NoReturn
              /\ UNCHANGED <<used_ports, lock, port, cid, obj, avt>>
    /\ UNCHANGED <<instances, nobj, inst, procs, instance_registry, todo, cont>>
    /\ UNCHANGED <<ncalls, nover, ndeaths>>
    /\ UNCHANGED readVars
    /\ UNCHANGED dead_objs

\* _start_mavlink_router lines 240-259: RuntimeError("mavlink-routerd not
\* found") if shutil.which finds nothing, else the router is spawned.  The
\* PX4 process is not terminated on failure.
StartRouter(t, found) ==
    /\ pc[t] = "es_router"
    /\ IF ~found
         THEN /\ StartFail(t, "RouterNotFound")
              /\ UNCHANGED procs
         ELSE /\ procs' = [procs EXCEPT ![obj[t]].router = "alive"]
              /\ pc' = [pc EXCEPT ![t] = "es_rcheck"]
              /\ result' = NoReturn
              /\ UNCHANGED <<used_ports, lock, port, cid, obj, avt>>
    /\ UNCHANGED <<instances, nobj, inst, instance_registry, todo, cont>>
    /\ UNCHANGED <<ncalls, nover, ndeaths>>
    /\ UNCHANGED readVars
    /\ UNCHANGED dead_objs

\* _start_mavlink_router lines 262-268: RuntimeError("MAVLink router failed
\* to start") if the router has exited after 1 s.  Else lines 143-165 of
\* PX4Engine.start_instance (create the record with status "running", put it
\* in the table, start the monitor thread, return the id).
StartRegister(t) ==
    /\ pc[t] = "es_rcheck"
    /\ IF ~Running(obj[t], "router")
         THEN /\ StartFail(t, "RouterFailed")
              /\ UNCHANGED <<instances, inst, instance_registry>>
         ELSE /\ inst' = [inst EXCEPT ![obj[t]] =
                            [instance_id |-> cid[t], port |-> port[t], status |-> "running"]]
              /\ instances' = [instances EXCEPT ![cid[t]] = obj[t]]
              /\ pc' = [pc EXCEPT ![t] = "ms_map", ![Mon(obj[t])] = "m_check"]
              /\ cid' = [cid EXCEPT ![Mon(obj[t])] = cid[t]]
              /\ obj' = [obj EXCEPT ![t] = 0]
              /\ port' = [port EXCEPT ![t] = 0]
              /\ avt' = [avt EXCEPT ![t] = TRUE]
              /\ result' = NoReturn
              /\ UNCHANGED <<used_ports, lock, instance_registry>>
    /\ UNCHANGED <<nobj, procs, todo, cont>>
    /\ UNCHANGED <<ncalls, nover, ndeaths>>
    /\ UNCHANGED readVars
    /\ UNCHANGED dead_objs

\* SITLManager.start_instance lines 77-80: record the id in the mapping and
\* return it; the with block releases the lock
MgrRegister(t) ==
    /\ pc[t] = "ms_map"
    /\ instance_registry' = [instance_registry EXCEPT ![cid[t]] = "px4"]
    /\ lock' = 0
    /\ pc' = [pc EXCEPT ![t] = "idle"]
    /\ cid' = [cid EXCEPT ![t] = 0]
    /\ result' = Returns(t, "start", cid[t], "started", 0)
    /\ UNCHANGED <<engineVars, obj, port, avt, todo, cont>>
    /\ UNCHANGED <<ncalls, nover, ndeaths>>
    /\ UNCHANGED readVars
    /\ UNCHANGED dead_objs

\* ------------------------------------------------ SITLManager.stop_instance
\* lines 96-105: called by a request, or by stop_all_instances for one of its
\* ids while that thread already holds the lock
MgrStop(t, id) ==
    /\ pc[t] \in {"idle", "sa_call"}
    /\ pc[t] = "sa_call" => id \in todo[t]
    /\ lock = 0
    /\ IF instance_registry[id] = ""
         THEN /\ result' = IF pc[t] = "idle" THEN Returns(t, "stop", id, "false", 0)
                                             ELSE NoReturn
              /\ todo' = [todo EXCEPT ![t] = @ \ {id}]
              /\ UNCHANGED <<lock, pc, cid, cont>>
         ELSE /\ lock' = t
              /\ cid' = [cid EXCEPT ![t] = id]
              /\ cont' = [cont EXCEPT ![t] = IF pc[t] = "idle" THEN "mgr_stop" ELSE "mgr_all"]
              /\ todo' = [todo EXCEPT ![t] = @ \ {id}]
              /\ pc' = [pc EXCEPT ![t] = "s_check"]
              /\ result' = NoReturn
    /\ UNCHANGED <<engineVars, instance_registry, obj, port, avt>>
    /\ IF pc[t] = "idle" THEN Arrive(t) ELSE UNCHANGED <<ncalls, nover, ndeaths>>
    /\ UNCHANGED readVars
    /\ UNCHANGED dead_objs

\* ----------------------------------------------------- SITLManager.cleanup
\* stop_all_instances (lines 140-145) takes the lock and lists the mapping's
\* keys; for each it calls self.stop_instance, which takes the lock again.
\* With no key the loop is empty, the lock is released and cleanup goes on to
\* PX4Engine.cleanup (lines 181-183).
MgrCleanup(t) ==
    /\ pc[t] = "idle"
    /\ lock = 0
    /\ IF RegistryKeys = {}
         THEN /\ pc' = [pc EXCEPT ![t] = "ec_call"]
              /\ UNCHANGED <<lock, todo>>
         ELSE /\ todo' = [todo EXCEPT ![t] = RegistryKeys]
              /\ pc' = [pc EXCEPT ![t] = "sa_call"]
              /\ lock' = t
    /\ result' = NoReturn
    /\ UNCHANGED <<engineVars, instance_registry, cid, obj, port, avt, cont>>
    /\ Arrive(t)
    /\ UNCHANGED readVars
    /\ UNCHANGED dead_objs

\* PX4Engine.cleanup -> stop_all_instances line 438:
\* instance_ids = list(self.instances.keys())
EngineCleanup(t) ==
    /\ pc[t] = "ec_call"
    /\ todo' = [todo EXCEPT ![t] = InstanceKeys]
    /\ pc' = [pc EXCEPT ![t] = "ea_loop"]
    /\ result' = NoReturn
    /\ UNCHANGED <<engineVars, lock, instance_registry, cid, obj, port, avt, cont>>
    /\ UNCHANGED <<ncalls, nover, ndeaths>>
    /\ UNCHANGED readVars
    /\ UNCHANGED dead_objs

\* PX4Engine.stop_all_instances lines 439-440
EngineStopAll(t) ==
    /\ pc[t] = "ea_loop"
    /\ IF todo[t] = {}
         THEN /\ pc' = [pc EXCEPT ![t] = "idle"]
              /\ result' = Returns(t, "cleanup", 0, "done", 0)
              /\ UNCHANGED <<cid, cont, todo>>
         ELSE \E id \in todo[t] :
              /\ todo' = [todo EXCEPT ![t] = @ \ {id}]
              /\ cid' = [cid EXCEPT ![t] = id]
              /\ cont' = [cont EXCEPT ![t] = "engine_all"]
              /\ pc' = [pc EXCEPT ![t] = "s_check"]
              /\ result' = NoReturn
    /\ UNCHANGED <<engineVars, lock, instance_registry, obj, port, avt>>
    /\ UNCHANGED <<ncalls, nover, ndeaths>>
    /\ UNCHANGED readVars
    /\ UNCHANGED dead_objs

\* --------------------------------------------- PX4Engine.list_instances
\* the ids _cleanup_dead_instances collects (lines 401-408)
DeadInstances == {id \in InstanceKeys : ~BothRunning(instances[id])}

\* get_engine_status -> list_instances -> _cleanup_dead_instances, first loop
EngineList(t) ==
    /\ pc[t] = "idle"
    /\ todo' = [todo EXCEPT ![t] = DeadInstances]
    /\ pc' = [pc EXCEPT ![t] = "pr_loop"]
    /\ result' = NoReturn
    /\ dead_objs' = [dead_objs EXCEPT ![t] =
                        {[obj |-> instances[id], port |-> inst[instances[id]].port] :
                            id \in DeadInstances}]
    /\ UNCHANGED <<engineVars, lock, instance_registry, cid, obj, port, avt, cont>>
    /\ Arrive(t)
    /\ UNCHANGED readVars

\* second loop of _cleanup_dead_instances (lines 410-414), then the result of
\* list_instances (lines 394-395)
PruneNext(t) ==
    /\ pc[t] = "pr_loop"
    /\ IF todo[t] = {}
         THEN /\ pc' = [pc EXCEPT ![t] = "idle"]
              /\ result' = Returns(t, "list", 0, "listed", 0)
              /\ dead_objs' = [dead_objs EXCEPT ![t] = {}]
              /\ UNCHANGED <<cid, cont, todo>>
         ELSE \E id \in todo[t] :
              /\ UNCHANGED dead_objs
              /\ todo' = [todo EXCEPT ![t] = @ \ {id}]
              /\ cid' = [cid EXCEPT ![t] = id]
              /\ cont' = [cont EXCEPT ![t] = "prune"]
              /\ pc' = [pc EXCEPT ![t] = "s_check"]
              /\ result' = NoReturn
    /\ UNCHANGED <<engineVars, lock, instance_registry, obj, port, avt>>
    /\ UNCHANGED <<ncalls, nover, ndeaths>>
    /\ UNCHANGED readVars

\* ------------------------------------------------------------ environment
\* an owned process exits on its own (crash, external kill)
Die(k, which) ==
    /\ procs[k][which] = "alive"
    /\ procs' = [procs EXCEPT ![k][which] = "dead"]
    /\ result' = NoReturn
    /\ UNCHANGED <<instances, used_ports, nobj, inst, lock, instance_registry,
                   pc, cid, obj, port, avt, todo, cont>>
    /\ ndeaths < MaxDeaths
    /\ ndeaths' = ndeaths + 1
    /\ UNCHANGED <<ncalls, nover>>
    /\ UNCHANGED readVars
    /\ UNCHANGED dead_objs

\* Instance ids are opaque strings.  The ids that no table, local variable or
\* pending result refers to are interchangeable, so a request names an id the
\* state refers to or one id it does not refer to (the least of them).
RefIds ==
    {id \in Ids :
        \/ InInstances(id)
        \/ instance_registry[id] # ""
        \/ \E a \in Agents : cid[a] = id
        \/ \E t \in Threads : id \in todo[t] \/ result[t].id = id
        \/ \E k \in Objs : inst[k].instance_id = id}
RequestIds ==
    RefIds \cup (IF Ids \ RefIds = {} THEN {} ELSE {Min(Ids \ RefIds)})

\* A request is served by an idle worker thread; which one makes no
\* difference (an idle thread keeps nothing from its last request), so it is
\* the lowest idle one.  A cleanup in its loop makes its own nested call.
Servers == {t \in Threads : pc[t] = "sa_call" \/ \A u \in Threads : u < t => pc[u] # "idle"}

Next ==
    \/ \E t \in Servers, e \in {"px4", "ardupilot"}, v \in BOOLEAN, id \in RequestIds :
          MgrStart(t, e, v, id)
    \/ \E t \in Threads : StartPx4(t)
    \/ \E t \in Threads : StartWindow(t)
    \/ \E t \in Threads, f \in BOOLEAN : StartRouter(t, f)
    \/ \E t \in Threads : StartRegister(t)
    \/ \E t \in Threads : MgrRegister(t)
    \/ \E t \in Servers, id \in RequestIds : MgrStop(t, id)
    \/ \E t \in Servers : MgrCleanup(t)
    \/ \E t \in Threads : EngineCleanup(t)
    \/ \E t \in Threads : EngineStopAll(t)
    \/ \E t \in Servers : EngineList(t)
    \/ \E t \in Threads : PruneNext(t)
    \/ \E a \in Agents : StopCheck(a)
    \/ \E a \in Agents : StopRead(a)
    \/ \E a \in Agents : StopTerminate(a)
    \/ \E a \in Agents : StopRelease(a)
    \/ \E a \in Agents : StopDel(a)
    \/ \E k \in Objs : MonitorCheck(k)
    \/ \E k \in Objs : MonitorRead(k)
    \/ \E k \in Objs : MonitorPoll(k)
    \/ \E k \in Objs, w \in {"px4", "router"} : Die(k, w)

Spec == Init /\ [][Next]_vars

\* One client: requests arrive one at a time (thread Client issues them and
\* each runs to its end before the next), the monitor threads run beside it.
\* The monitors are daemon threads that the scheduler keeps running, and every
\* wait of the stop path is bounded (terminate: 5 s, then kill).
Client == Min(Threads)
MonitorSteps(k) ==
    \/ MonitorCheck(k) \/ MonitorRead(k) \/ MonitorPoll(k)
    \/ StopCheck(Mon(k)) \/ StopRead(Mon(k)) \/ StopTerminate(Mon(k))
    \/ StopRelease(Mon(k)) \/ StopDel(Mon(k))
SeqNext ==
    \/ \E e \in {"px4", "ardupilot"}, v \in BOOLEAN, id \in RequestIds :
          MgrStart(Client, e, v, id)
    \/ StartPx4(Client)
    \/ StartWindow(Client)
    \/ \E f \in BOOLEAN : StartRouter(Client, f)
    \/ StartRegister(Client)
    \/ MgrRegister(Client)
    \/ \E id \in RequestIds : MgrStop(Client, id)
    \/ MgrCleanup(Client)
    \/ EngineCleanup(Client)
    \/ EngineStopAll(Client)
    \/ EngineList(Client)
    \/ PruneNext(Client)
    \/ StopCheck(Client)
    \/ StopRead(Client)
    \/ StopTerminate(Client)
    \/ StopRelease(Client)
    \/ StopDel(Client)
    \/ \E k \in Objs : MonitorSteps(k)
    \/ \E k \in Objs, w \in {"px4", "router"} : Die(k, w)
MonitorSpec == Init /\ [][SeqNext]_vars /\ \A k \in Objs : WF_vars(MonitorSteps(k))

\* ------------------------------------------------------------- properties
\* the ports recorded in the registered instances
HeldPorts == {inst[instances[id]].port : id \in InstanceKeys}

\* ------------------------------------------- PX4Engine._terminate_process
\* stop_instance lines 288-294 seen step by step: _terminate_process is called
\* for instance.mavlink_router_process, then for instance.process.  The
\* positions of a thread in the i-th call: the poll of line 311 ("s_term" is
\* the first one), the SIGTERM of line 314, the wait of line 318, the SIGKILL
\* of line 321; after the i-th call comes the next call or release_port.
TermOrderMutPx4First == <<"px4", "router">>
TermOrder == <<"router", "px4">>
Calls == DOMAIN TermOrder
PcPoll(i) == IF i = Min(Calls) THEN "s_term" ELSE "t2_poll"
PcSig(i) == IF i = Min(Calls) THEN "t1_sig" ELSE "t2_sig"
PcWait(i) == IF i = Min(Calls) THEN "t1_wait" ELSE "t2_wait"
PcKill(i) == IF i = Min(Calls) THEN "t1_kill" ELSE "t2_kill"
AfterCall(i) == IF i = Min(Calls) THEN "t2_poll" ELSE "s_release"
TermPcs == {"t1_sig", "t1_wait", "t1_kill", "t2_poll", "t2_sig", "t2_wait", "t2_kill"}

\* what a step inside _terminate_process leaves alone
TermFrame ==
    /\ UNCHANGED <<instances, used_ports, nobj, lock, instance_registry>>
    /\ UNCHANGED <<port, avt, ncalls, nover, ndeaths, dead_objs, di_used>>

\* the step stays inside stop_instance: on to position q
TermGoes(a, q) ==
    /\ pc' = [pc EXCEPT ![a] = q]
    /\ result' = NoReturn
    /\ UNCHANGED <<inst, cid, obj, todo, cont>>

\* an exception other than ProcessLookupError leaves _terminate_process and is
\* caught by the except clause of stop_instance (lines 305-307): return False
TermRaises(a) ==
    /\ StopReturn(a, "false")
    /\ inst' = Collect(inst, instances, obj')
    /\ UNCHANGED <<procs, signalled>>

\* line 311: if process and process.poll() is None
TermPoll(a, i) ==
    /\ pc[a] = PcPoll(i)
    /\ TermGoes(a, IF Running(obj[a], TermOrder[i]) THEN PcSig(i) ELSE AfterCall(i))
    /\ UNCHANGED <<procs, signalled>>
    /\ TermFrame

\* line 314: os.killpg(os.getpgid(process.pid), signal.SIGTERM).  It raises
\* ProcessLookupError when the process is gone (caught at line 324: pass) and
\* may raise another OSError (raises: for instance PermissionError).
TermSignal(a, i, raises) ==
    /\ pc[a] = PcSig(i)
    /\ IF ~Running(obj[a], TermOrder[i])
         THEN /\ TermGoes(a, AfterCall(i))
              /\ UNCHANGED <<procs, signalled>>
         ELSE IF raises
         THEN TermRaises(a)
         ELSE /\ signalled' = [signalled EXCEPT ![obj[a]][TermOrder[i]] = "SIGTERM"]
              /\ TermGoes(a, PcWait(i))
              /\ UNCHANGED procs
    /\ TermFrame

\* lines 317-319: process.wait(timeout=5) returns when the process has exited
\* (exits: it does so within the 5 s), else TimeoutExpired
TermWait(a, i, exits) ==
    /\ pc[a] = PcWait(i)
    /\ IF ~Running(obj[a], TermOrder[i])
         THEN /\ TermGoes(a, AfterCall(i))
              /\ UNCHANGED procs
         ELSE IF exits
         THEN /\ procs' = Terminated(procs, obj[a], TermOrder[i])
              /\ TermGoes(a, AfterCall(i))
         ELSE /\ TermGoes(a, PcKill(i))
              /\ UNCHANGED procs
    /\ UNCHANGED signalled
    /\ TermFrame

\* lines 321-322: os.killpg(os.getpgid(process.pid), signal.SIGKILL);
\* process.wait()
TermKill(a, i, raises) ==
    /\ pc[a] = PcKill(i)
    /\ IF ~Running(obj[a], TermOrder[i])
         THEN /\ TermGoes(a, AfterCall(i))
              /\ UNCHANGED <<procs, signalled>>
         ELSE IF raises
         THEN TermRaises(a)
         ELSE /\ signalled' = [signalled EXCEPT ![obj[a]][TermOrder[i]] = "SIGKILL"]
              /\ procs' = Terminated(procs, obj[a], TermOrder[i])
              /\ TermGoes(a, AfterCall(i))
    /\ TermFrame

\* One client issues start and stop requests one after the other, the monitor
\* threads run beside it, and every stop goes through _terminate_process step
\* by step.  The run has room for MaxTermObjs instances.
TermSteps(a) ==
    \/ StopCheck(a) \/ StopRead(a) \/ StopRelease(a) \/ StopDel(a)
    \/ \E i \in Calls : TermPoll(a, i)
    \/ \E i \in Calls, r \in BOOLEAN : TermSignal(a, i, r)
    \/ \E i \in Calls, x \in BOOLEAN : TermWait(a, i, x)
    \/ \E i \in Calls, r \in BOOLEAN : TermKill(a, i, r)
TermNext ==
    \/ \E e \in {"px4", "ardupilot"}, v \in BOOLEAN, id \in RequestIds :
          nobj < MaxTermObjs /\ MgrStart(Client, e, v, id)
    \/ StartPx4(Client)
    \/ StartWindow(Client)
    \/ \E f \in BOOLEAN : StartRouter(Client, f)
    \/ StartRegister(Client)
    \/ MgrRegister(Client)
    \/ \E id \in RequestIds : MgrStop(Client, id)
    \/ \E a \in Agents : TermSteps(a)
    \/ \E k \in Objs : MonitorCheck(k)
    \/ \E k \in Objs : MonitorRead(k)
    \/ \E k \in Objs : MonitorPoll(k)
    \/ \E k \in Objs, w \in {"px4", "router"} : Die(k, w)
TermSpec == Init /\ [][TermNext]_vars


\* ------------------------- SITLManager.get_instance_status / list_instances
\* What the caller of SITLManager.get_instance_status does with its outcome v:
\* "status" (a status record), "error" (the dict {"error": ...}) or "KeyError".
\*   status     the request handler of GET /api/instances/<id>: the answer
\*   mgr_list   SITLManager.list_instances: append the record unless it has
\*              "error"; the except clause logs an exception; next key
StatusReturn(t, v) ==
    /\ cid' = [cid EXCEPT ![t] = 0]
    /\ IF cont[t] = "status"
         THEN /\ pc' = [pc EXCEPT ![t] = "idle"]
              /\ result' = Returns(t, "status", cid[t], v, 0)
         ELSE /\ pc' = [pc EXCEPT ![t] = "ml_next"]
              /\ result' = NoReturn
    /\ cont' = [cont EXCEPT ![t] = "none"]

\* what a step of the read operations leaves alone: they write nothing shared
ReadFrame ==
    /\ UNCHANGED <<engineVars, lock, instance_registry, obj, port, avt>>
    /\ UNCHANGED <<dead_objs, signalled>>

\* GET /api/instances/<id>: the handler calls get_instance_status(id)
MgrStatus(t, id) ==
    /\ pc[t] = "idle"
    /\ pc' = [pc EXCEPT ![t] = "gs_check"]
    /\ cid' = [cid EXCEPT ![t] = id]
    /\ cont' = [cont EXCEPT ![t] = "status"]
    /\ result' = NoReturn
    /\ UNCHANGED <<todo, di_used>>
    /\ ReadFrame
    /\ Arrive(t)

\* manager.py line 117: if instance_id not in self.instance_registry
StatusCheck(t) ==
    /\ pc[t] = "gs_check"
    /\ IF InRegistry(cid[t])
         THEN /\ pc' = [pc EXCEPT ![t] = "gs_read"]
              /\ result' = NoReturn
              /\ UNCHANGED <<cid, cont>>
         ELSE StatusReturn(t, "error")
    /\ UNCHANGED <<todo, di_used>>
    /\ ReadFrame
    /\ UNCHANGED <<ncalls, nover, ndeaths>>

\* manager.py line 120: engine_type = self.instance_registry[instance_id]
StatusRead(t) ==
    /\ pc[t] = "gs_read"
    /\ IF InRegistry(cid[t])
         THEN /\ pc' = [pc EXCEPT ![t] = "gs_echeck"]
              /\ result' = NoReturn
              /\ UNCHANGED <<cid, cont>>
         ELSE StatusReturn(t, "KeyError")
    /\ UNCHANGED <<todo, di_used>>
    /\ ReadFrame
    /\ UNCHANGED <<ncalls, nover, ndeaths>>

\* px4_engine.py line 370: if instance_id not in self.instances
EngineStatusCheck(t) ==
    /\ pc[t] = "gs_echeck"
    /\ IF InInstances(cid[t])
         THEN /\ pc' = [pc EXCEPT ![t] = "gs_eread"]
              /\ result' = NoReturn
              /\ UNCHANGED <<cid, cont>>
         ELSE StatusReturn(t, "error")
    /\ UNCHANGED <<todo, di_used>>
    /\ ReadFrame
    /\ UNCHANGED <<ncalls, nover, ndeaths>>

\* px4_engine.py lines 373-387: instance = self.instances[instance_id]; return
\* its status record
EngineStatusRead(t) ==
    /\ pc[t] = "gs_eread"
    /\ StatusReturn(t, IF InInstances(cid[t]) THEN "status" ELSE "KeyError")
    /\ UNCHANGED <<todo, di_used>>
    /\ ReadFrame
    /\ UNCHANGED <<ncalls, nover, ndeaths>>

\* GET /api/instances: list_instances, line 129: the for statement creates an
\* iterator over self.instance_registry.items(), which notes the dict's size
MgrList(t) ==
    /\ pc[t] = "idle"
    /\ pc' = [pc EXCEPT ![t] = "ml_next"]
    /\ todo' = [todo EXCEPT ![t] = RegistryKeys]
    /\ di_used' = [di_used EXCEPT ![t] = Cardinality(RegistryKeys)]
    /\ result' = NoReturn
    /\ UNCHANGED <<cid, cont>>
    /\ ReadFrame
    /\ Arrive(t)

\* line 129, the iterator's next item: RuntimeError("dictionary changed size
\* during iteration") when the size is no longer the one noted, which no
\* handler in list_instances catches; else a key that was not visited and is
\* still there, for which get_instance_status is called (line 131); with no
\* such key the loop ends and the list is returned (line 138)
MgrListNext(t) ==
    /\ pc[t] = "ml_next"
    /\ IF Cardinality(RegistryKeys) # di_used[t]
         THEN /\ pc' = [pc EXCEPT ![t] = "idle"]
              /\ result' = Returns(t, "list", 0, "RuntimeError", 0)
              /\ todo' = [todo EXCEPT ![t] = {}]
              /\ di_used' = [di_used EXCEPT ![t] = 0]
              /\ UNCHANGED <<cid, cont>>
         ELSE IF todo[t] \cap RegistryKeys = {}
         THEN /\ pc' = [pc EXCEPT ![t] = "idle"]
              /\ result' = Returns(t, "list", 0, "listed", 0)
              /\ todo' = [todo EXCEPT ![t] = {}]
              /\ di_used' = [di_used EXCEPT ![t] = 0]
              /\ UNCHANGED <<cid, cont>>
         ELSE \E id \in todo[t] \cap RegistryKeys :
              /\ pc' = [pc EXCEPT ![t] = "gs_check"]
              /\ cid' = [cid EXCEPT ![t] = id]
              /\ cont' = [cont EXCEPT ![t] = "mgr_list"]
              /\ todo' = [todo EXCEPT ![t] = @ \ {id}]
              /\ result' = NoReturn
              /\ UNCHANGED di_used
    /\ ReadFrame
    /\ UNCHANGED <<ncalls, nover, ndeaths>>

\* Requests to start, stop, read one instance and list them, served by the
\* request threads, with the monitor threads beside them.  The run has room
\* for MaxReadObjs instances.
ReadNext ==
    \/ \E t \in Servers, e \in {"px4", "ardupilot"}, v \in BOOLEAN, id \in RequestIds :
          nobj < MaxReadObjs /\ MgrStart(t, e, v, id)
    \/ \E t \in Threads : StartPx4(t)
    \/ \E t \in Threads : StartWindow(t)
    \/ \E t \in Threads, f \in BOOLEAN : StartRouter(t, f)
    \/ \E t \in Threads : StartRegister(t)
    \/ \E t \in Threads : MgrRegister(t)
    \/ \E t \in Servers, id \in RequestIds : MgrStop(t, id)
    \/ \E t \in Servers, id \in RequestIds : MgrStatus(t, id)
    \/ \E t \in Threads : StatusCheck(t)
    \/ \E t \in Threads : StatusRead(t)
    \/ \E t \in Threads : EngineStatusCheck(t)
    \/ \E t \in Threads : EngineStatusRead(t)
    \/ \E t \in Servers : MgrList(t)
    \/ \E t \in Threads : MgrListNext(t)
    \/ \E a \in Agents : StopCheck(a)
    \/ \E a \in Agents : StopRead(a)
    \/ \E a \in Agents : StopTerminate(a)
    \/ \E a \in Agents : StopRelease(a)
    \/ \E a \in Agents : StopDel(a)
    \/ \E k \in Objs : MonitorCheck(k)
    \/ \E k \in Objs : MonitorRead(k)
    \/ \E k \in Objs : MonitorPoll(k)
    \/ \E k \in Objs, w \in {"px4", "router"} : Die(k, w)
ReadSpec == Init /\ [][ReadNext]_vars

\* ------------------------------------------------- the Flask application
\* app.py lines 183-187 register SITLManager.cleanup with
\* @app.teardown_appcontext: Flask calls it when the application context of a
\* request is popped, that is at the end of every request, on the thread that
\* served the request.  Nothing calls cleanup when the process exits
\* (lines 207-213).  A request whose handler has just returned is followed by
\* its teardown before anything else runs.
TeardownDue(t) == result[t].op \notin {"none", "cleanup"}
Teardown(t) == TeardownDue(t) /\ MgrCleanup(t)

\* One client sends start, stop and status requests one after the other to
\* the application; the monitor threads run beside it.
Ready == \A t \in Threads : ~TeardownDue(t)
AppNext ==
    \/ Teardown(Client)
    \/ \E e \in {"px4", "ardupilot"}, v \in BOOLEAN, id \in RequestIds :
          Ready /\ MgrStart(Client, e, v, id)
    \/ Ready /\ StartPx4(Client)
    \/ Ready /\ StartWindow(Client)
    \/ \E f \in BOOLEAN : Ready /\ StartRouter(Client, f)
    \/ Ready /\ StartRegister(Client)
    \/ Ready /\ MgrRegister(Client)
    \/ \E id \in RequestIds : Ready /\ pc[Client] = "idle" /\ MgrStop(Client, id)
    \/ Ready /\ EngineList(Client)
    \/ Ready /\ PruneNext(Client)
    \/ Ready /\ EngineCleanup(Client)
    \/ Ready /\ EngineStopAll(Client)
    \/ \E a \in Agents : Ready /\ StopCheck(a)
    \/ \E a \in Agents : Ready /\ StopRead(a)
    \/ \E a \in Agents : Ready /\ StopTerminate(a)
    \/ \E a \in Agents : Ready /\ StopRelease(a)
    \/ \E a \in Agents : Ready /\ StopDel(a)
    \/ \E k \in Objs : Ready /\ MonitorCheck(k)
    \/ \E k \in Objs : Ready /\ MonitorRead(k)
    \/ \E k \in Objs : Ready /\ MonitorPoll(k)
    \/ \E k \in Objs, w \in {"px4", "router"} : Ready /\ Die(k, w)
AppSpec == Init /\ [][AppNext]_vars

\* ------------------------------------------------ progress of the client
\* The steps by which the client's thread goes on with the manager operation
\* it is in; each is a piece of straight-line code or an engine call that
\* returns, so the scheduler lets the thread take it when it can be taken.
ClientSteps ==
    \/ StartPx4(Client) \/ StartWindow(Client)
    \/ \E f \in BOOLEAN : StartRouter(Client, f)
    \/ StartRegister(Client) \/ MgrRegister(Client)
    \/ \E id \in Ids : pc[Client] = "sa_call" /\ MgrStop(Client, id)
    \/ EngineCleanup(Client) \/ EngineStopAll(Client) \/ PruneNext(Client)
    \/ StopCheck(Client) \/ StopRead(Client) \/ StopTerminate(Client)
    \/ StopRelease(Client) \/ StopDel(Client)

\* One client calls the manager's operations one after the other (a start
\* only while the run has room for another launch), the monitors run beside
\* it, and no thread is starved.
LockNext ==
    \/ \E e \in {"px4", "ardupilot"}, v \in BOOLEAN, id \in RequestIds :
          nobj < MaxStarts /\ MgrStart(Client, e, v, id)
    \/ \E id \in RequestIds : MgrStop(Client, id)
    \/ MgrCleanup(Client)
    \/ EngineList(Client)
    \/ StartPx4(Client)
    \/ StartWindow(Client)
    \/ \E f \in BOOLEAN : StartRouter(Client, f)
    \/ StartRegister(Client)
    \/ MgrRegister(Client)
    \/ EngineCleanup(Client)
    \/ EngineStopAll(Client)
    \/ PruneNext(Client)
    \/ StopCheck(Client)
    \/ StopRead(Client)
    \/ StopTerminate(Client)
    \/ StopRelease(Client)
    \/ StopDel(Client)
    \/ \E k \in Objs : MonitorSteps(k)
    \/ \E k \in Objs, w \in {"px4", "router"} : Die(k, w)
LockSpec ==
    /\ Init /\ [][LockNext]_vars
    /\ WF_vars(ClientSteps)
    /\ \A k \in Objs : WF_vars(MonitorSteps(k))

\* no start, stop, list or cleanup call, and no monitor-triggered stop, is
\* between its first and its last step
InStop(a) == pc[a] \in {"s_check", "s_read", "s_term", "s_release", "s_del"} \cup TermPcs
Quiescent ==
    /\ \A t \in Threads : pc[t] = "idle"
    /\ \A k \in Objs : ~InStop(Mon(k))

\* C1: whenever no start or stop call is mid-execution, the leased ports
\* (used_ports) are exactly the ports recorded in the registered instances
C1_LeasedEqualsHeld == Quiescent => used_ports = HeldPorts

\* a stop of object k has released k's port and is about to delete its key:
\* k no longer holds its port
Releasing(k) == \E a \in Agents : pc[a] = "s_del" /\ obj[a] = k

\* the ids whose registered instance holds its port
Holders == {id \in InstanceKeys : ~Releasing(instances[id])}

\* C2: acquire never hands out a port that a registered instance holds, and
\* no two registered instances hold the same port
C2_NoDoubleLease ==
    /\ \A t \in Threads, id \in Holders : port[t] # 0 => port[t] # inst[instances[id]].port
    /\ \A i, j \in Holders : i # j => inst[instances[i]].port # inst[instances[j]].port

\* the instances that were registered at some time: each got a monitor
EverRegistered(k) == pc[Mon(k)] # "m_none"
OwnedAlive == \E k \in Objs : EverRegistered(k) /\ (Running(k, "px4") \/ Running(k, "router"))

\* C3: a cleanup() in progress is never blocked for good (when it is about
\* to call stop_instance for an id, that call can proceed), and when it
\* completes with no other call in progress no id is in the mapping, no instance in the engine table, no
\* port leased and no owned process alive
C3_CleanupCompletes ==
    \A t \in Threads :
        /\ pc[t] = "sa_call" => ENABLED (\E id \in Ids : MgrStop(t, id))
        /\ ( /\ result[t].op = "cleanup" /\ result[t].val = "done"
             /\ \A u \in Threads : pc[u] = "idle" ) =>
              /\ RegistryKeys = {}
              /\ InstanceKeys = {}
              /\ used_ports = {}
              /\ ~OwnedAlive

\* object k is in the engine table; one of its processes exited on its own
Registered(k) == \E id \in Ids : instances[id] = k
Dead(k) == procs[k].px4 = "dead" \/ procs[k].router = "dead"
PortHeld(p, ins, i, po) ==
    \/ \E t \in Threads : po[t] = p
    \/ \E id \in Ids : ins[id] # 0 /\ i[ins[id]].port = p
\* a stop that read object k has yet to release k's port
ToRelease(k) == \E a \in Agents : obj[a] = k /\ pc[a] \in {"s_term", "s_release"} \cup TermPcs

\* C4: once a process of a registered instance has exited on its own, the
\* instance is eventually removed from the engine table with no explicit
\* stop call needed; the monitor that finds the exit sets the status to
\* "failed" before it stops the instance; and when the instance leaves the
\* table its port is not left leased without a holder
C4_MonitorReacts ==
    /\ \A k \in Objs : (Registered(k) /\ Dead(k)) ~> ~Registered(k)
    /\ [][\A k \in Objs :
            (pc[Mon(k)] = "m_poll" /\ pc'[Mon(k)] = "s_check" /\ Registered(obj[Mon(k)])) =>
                inst'[obj[Mon(k)]].status = "failed"]_vars
    /\ [][\A k \in Objs :
            (Registered(k) /\ Dead(k) /\ ~Registered(k)') =>
                \/ inst[k].port \notin used_ports'
                \/ PortHeld(inst[k].port, instances', inst', port')
                \/ ToRelease(k)']_vars

\* C5: a manager stop on an id that is in the mapping returns true, removes
\* the instance from the engine table and the mapping and releases its
\* port; a stop on an id that is not in the mapping returns false and
\* changes nothing
C5_StopTwice ==
    [][\A t \in Threads :
          result'[t].op = "stop" =>
             IF instance_registry[result'[t].id] # ""
               THEN /\ result'[t].val = "true"
                    /\ instance_registry'[result'[t].id] = ""
                    /\ instances'[result'[t].id] = 0
                    /\ inst[obj[t]].port \notin used_ports'
               ELSE /\ result'[t].val = "false"
                    /\ UNCHANGED <<instances, used_ports, instance_registry, inst, procs, lock>>
      ]_vars

\* C6: when the primary process has exited during the startup window, start
\* fails with LaunchFailed, the port it acquired is released, no relay
\* process runs, the lock is free and no instance is registered
C6_LaunchFailedUnwinds ==
    [][\A t \in Threads :
          (pc[t] = "es_window" /\ ~Running(obj[t], "px4") /\ pc'[t] # pc[t]) =>
             /\ result'[t].op = "start"
             /\ result'[t].val = "LaunchFailed"
             /\ port[t] \notin used_ports'
             /\ procs'[obj[t]].router # "alive"
             /\ instances'[cid[t]] = 0
             /\ instance_registry'[cid[t]] = ""
             /\ lock' = 0
      ]_vars
C6_Witness == \E t \in Threads : result[t].val = "LaunchFailed"

\* C7: a start (known engine, fresh id) whose aircraft type is not in the
\* catalog fails with UnknownVehicleType, spawns nothing, registers nothing
\* and leaves no port leased for it
C7_UnknownVehicle ==
    [][\A t \in Threads :
          ( /\ result'[t].op = "start"
            /\ ~result'[t].known
            /\ result'[t].val \notin {"UnknownEngine", "DuplicateInstance"} ) =>
             /\ result'[t].val = "UnknownVehicleType"
             /\ result'[t].port \notin used_ports'
             /\ nobj' = nobj /\ procs' = procs
             /\ instances' = instances
             /\ instance_registry' = instance_registry
      ]_vars

\* C8: a start (known engine, fresh id) called when every port is leased
\* fails with ResourceExhausted and leaves the port pool and the table as
\* they were
C8_Exhausted ==
    [][\A t \in Threads :
          ( /\ pc[t] = "idle"
            /\ result'[t].op = "start"
            /\ available_ports \subseteq used_ports
            /\ result'[t].val \notin {"UnknownEngine", "DuplicateInstance"} ) =>
             /\ result'[t].val = "ResourceExhausted"
             /\ UNCHANGED <<used_ports, instances>>
      ]_vars

\* C9: whenever no manager start or stop is mid-execution, every id of the
\* manager's mapping has an instance in the engine's table
C9_MappingHasInstance == lock = 0 => \A id \in RegistryKeys : InInstances(id)

\* C10: acquire returns the smallest port of the range that is not leased
\* and marks it leased
C10_SmallestFirst ==
    [][\A t \in Threads :
          (port'[t] # 0 /\ port[t] = 0) =>
             /\ port'[t] \in available_ports \ used_ports
             /\ \A q \in available_ports \ used_ports : port'[t] <= q
             /\ used_ports' = used_ports \cup {port'[t]}
      ]_vars
\* a lower port is reused after its instance was stopped, while a higher
\* port is leased and a still higher one was never used
C10_Witness ==
    \E t \in Threads :
        /\ port[t] = PortBase
        /\ PortBase + 1 \in used_ports
        /\ PortBase + 2 \notin used_ports
        /\ nobj >= 2

\* C11: release_port on a port that is not leased changes nothing, and in
\* every case leaves the port not leased and every other port as it was
C11_ReleaseIdempotent ==
    [][\A a \in Agents :
          (pc[a] = "s_release" /\ pc'[a] = "s_del") =>
             /\ inst[obj[a]].port \notin used_ports'
             /\ used_ports' \ {inst[obj[a]].port} = used_ports \ {inst[obj[a]].port}
             /\ inst[obj[a]].port \notin used_ports => used_ports' = used_ports
      ]_vars
\* two stops of the same instance have both released its port: the second
\* release found it not leased
C11_Witness ==
    \E a, b \in Agents :
        /\ a # b
        /\ pc[a] = "s_del" /\ pc[b] = "s_del"
        /\ obj[a] # 0 /\ obj[a] = obj[b]

\* C12: a manager start with an engine type that is not registered ends with
\* UnknownEngine, one with a registered engine type and an id that is in the
\* mapping ends with DuplicateInstance; each returns at once, with the engine
\* state (table, ports, processes), the mapping and the lock as they were
C12_RejectedStart ==
    [][\A t \in Threads, e \in {"px4", "ardupilot"}, v \in BOOLEAN, id \in Ids :
          MgrStart(t, e, v, id) =>
             /\ e # "px4" =>
                   /\ result'[t].val = "UnknownEngine"
                   /\ pc'[t] = "idle"
                   /\ UNCHANGED <<engineVars, instance_registry, lock, port>>
             /\ (e = "px4" /\ instance_registry[id] # "") =>
                   /\ result'[t].val = "DuplicateInstance"
                   /\ pc'[t] = "idle"
                   /\ UNCHANGED <<engineVars, instance_registry, lock, port>>
      ]_vars
\* a start was refused because its id is in the mapping
C12_Witness ==
    \E t \in Threads :
        /\ result[t].op = "start"
        /\ result[t].val = "DuplicateInstance"
        /\ InRegistry(result[t].id)

\* a thread inside the engine's start_instance, between the port acquisition
\* and the return
InEngineStart(t) == pc[t] \in {"es_px4", "es_window", "es_router", "es_rcheck"}

\* C13: the mapping gains an id only in the step after the engine's start
\* returned it; a start that fails leaves the id out of the mapping and of the
\* table and its port out of the pool of leased ports; the mapping loses an id
\* only in the step in which the engine's stop returns true, and a manager stop
\* whose engine stop does not return true keeps the entry and returns false
C13_MappingOnSuccess ==
    [][/\ \A id \in Ids :
            /\ (instance_registry[id] = "" /\ instance_registry'[id] # "") =>
                  \E t \in Threads :
                      /\ pc[t] = "ms_map" /\ cid[t] = id
                      /\ result'[t].val = "started"
            /\ (instance_registry[id] # "" /\ instance_registry'[id] = "") =>
                  \E t \in Threads :
                      /\ pc[t] = "s_del" /\ cid[t] = id
                      /\ cont[t] \in {"mgr_stop", "mgr_all"}
                      /\ InInstances(id) /\ instances'[id] = 0
       /\ \A t \in Threads :
            /\ (InEngineStart(t) /\ pc'[t] = "idle") =>
                  /\ result'[t].op = "start" /\ result'[t].val # "started"
                  /\ instance_registry'[cid[t]] = ""
                  /\ instances'[cid[t]] = 0
                  /\ port[t] \notin used_ports'
            /\ (/\ cont[t] = "mgr_stop" /\ pc'[t] = "idle"
                /\ \/ pc[t] \in {"s_check", "s_read"}
                   \/ pc[t] = "s_del" /\ ~InInstances(cid[t])) =>
                  /\ instance_registry'[cid[t]] = instance_registry[cid[t]]
                  /\ instance_registry[cid[t]] # ""
                  /\ result'[t].op = "stop" /\ result'[t].val = "false"
      ]_vars
\* a manager stop returned false for an id the mapping holds: the engine no
\* longer had the instance
C13_Witness ==
    \E t \in Threads :
        /\ result[t].op = "stop" /\ result[t].val = "false"
        /\ instance_registry[result[t].id] # ""

\* C14: a step of stop_instance for one id leaves every instance registered
\* under another id as it was: its table entry, its record, its processes and
\* whether its port is leased; and the stop's release step leaves the port of
\* the record it stops not leased
C14_StopAffectsOnlyTarget ==
    [][\A a \in Agents :
          (InStop(a) /\ pc'[a] # pc[a]) =>
             /\ \A id \in Ids \ {cid[a]} :
                   InInstances(id) =>
                      /\ instances'[id] = instances[id]
                      /\ inst'[instances[id]] = inst[instances[id]]
                      /\ procs'[instances[id]] = procs[instances[id]]
                      /\ inst[instances[id]].port \in used_ports
                            <=> inst[instances[id]].port \in used_ports'
             /\ pc[a] = "s_release" => inst[obj[a]].port \notin used_ports'
      ]_vars

\* the record a stop works on is no longer the one registered under its id:
\* another stop of the same instance has removed it
Removed(a) == obj[a] # 0 /\ instances[cid[a]] # obj[a]

\* C15: when stops of one instance interleave, no exception leaves a stop
\* uncaught (the monitor's stop_instance call does not end the monitor thread
\* with a KeyError), and the steps of a stop whose instance another stop has
\* already removed change neither the leased ports nor the table
C15_StopRaceSafe ==
    [][\A a \in Agents :
          /\ pc[a] = "s_read" => pc'[a] # "m_raised"
          /\ (pc[a] \in {"s_release", "s_del"} /\ pc'[a] # pc[a] /\ Removed(a)) =>
                UNCHANGED <<used_ports, instances>>
      ]_vars

\* C16: an instance enters the table with status "starting", and the status
\* of a registered instance becomes "running" only in a monitor iteration
\* that finds both of its processes running
C16_StartingThenRunning ==
    [][\A id \in Ids :
          /\ (~InInstances(id) /\ instances'[id] # 0) =>
                inst'[instances'[id]].status = "starting"
          /\ (/\ instances'[id] # 0
              /\ inst'[instances'[id]].status = "running"
              /\ ~(InInstances(id) /\ inst[instances[id]].status = "running")) =>
                /\ InInstances(id)
                /\ pc[Mon(instances[id])] = "m_poll"
                /\ pc'[Mon(instances[id])] = "m_check"
                /\ BothRunning(instances[id])
      ]_vars

\* C17: when list_instances builds its result, every instance that its
\* pruning pass found with an exited process is out of the table, neither of
\* its processes runs, and its port is not leased unless a later holder has
\* it or a stop that read the instance has yet to release it
C17_ListPrunes ==
    [][\A t \in Threads :
          (pc[t] = "pr_loop" /\ todo[t] = {} /\ pc'[t] = "idle") =>
             \A d \in dead_objs[t] :
                /\ ~Registered(d.obj)
                /\ ~Running(d.obj, "px4") /\ ~Running(d.obj, "router")
                /\ \/ d.port \notin used_ports
                   \/ PortHeld(d.port, instances, inst, port)
                   \/ ToRelease(d.obj)
      ]_vars

\* the process the i-th _terminate_process call of thread a is about
Target(a, i) == procs[obj[a]][TermOrder[i]]

\* C18: a stop signals the primary process only once the relay process no
\* longer runs; a process group is sent SIGTERM first, and SIGKILL only by a
\* stop whose wait after SIGTERM timed out with the process still running; a
\* process that has exited is passed over with no signal and no return; and a
\* stop that returns true leaves neither process of its instance running
C18_TerminationProtocol ==
    [][/\ \A k \in Objs :
            /\ signalled'[k].px4 # signalled[k].px4 => ~Running(k, "router")
            /\ \A w \in {"px4", "router"} :
                  /\ (signalled[k][w] = "none" /\ signalled'[k][w] # "none") =>
                        signalled'[k][w] = "SIGTERM"
                  /\ (signalled[k][w] # "SIGKILL" /\ signalled'[k][w] = "SIGKILL") =>
                        /\ signalled[k][w] = "SIGTERM"
                        /\ procs[k][w] = "alive"
                        /\ \E a \in Agents, i \in Calls :
                              /\ obj[a] = k /\ TermOrder[i] = w
                              /\ pc[a] = PcKill(i)
       /\ \A a \in Agents, i \in Calls :
            (pc[a] = PcPoll(i) /\ pc'[a] # pc[a] /\ Target(a, i) # "alive") =>
                /\ pc'[a] = AfterCall(i)
                /\ UNCHANGED <<signalled, procs>>
       /\ \A a \in Agents :
            (pc[a] = "s_del" /\ InInstances(cid[a]) /\ pc'[a] # pc[a]) =>
                /\ procs[obj[a]].px4 # "alive"
                /\ procs[obj[a]].router # "alive"
      ]_vars
\* a stop has returned true for an instance whose relay it had to kill and
\* whose primary process exited on SIGTERM
C18_Witness ==
    \E k \in Objs, t \in Threads :
        /\ signalled[k].router = "SIGKILL"
        /\ signalled[k].px4 = "SIGTERM"
        /\ procs[k].px4 = "dead" /\ procs[k].router = "dead"
        /\ result[t].op = "stop" /\ result[t].val = "true"

\* C19: a stop leaves _terminate_process only for release_port; put as the
\* claim has it, when a stop returns out of a termination step, the port of
\* its instance is not leased and neither of its processes runs
C19_TerminationErrorCleansUp ==
    [][\A a \in Agents :
          (pc[a] \in TermPcs \cup {"s_term"} /\ pc'[a] \notin TermPcs \cup {"s_term", "s_release"}) =>
             /\ inst[obj[a]].port \notin used_ports'
             /\ procs'[obj[a]].px4 # "alive"
             /\ procs'[obj[a]].router # "alive"
      ]_vars

\* C20: a get_instance_status or list_instances request that runs beside
\* starts, stops and monitor removals ends without an exception, and a status
\* record is returned only for an id that is in the engine table
C20_ReadsSafe ==
    [][\A t \in Threads :
          /\ result'[t].op \in {"status", "list"} =>
                result'[t].val \notin {"KeyError", "RuntimeError"}
          /\ (result'[t].op = "status" /\ result'[t].val = "status") =>
                InInstances(result'[t].id)
      ]_vars

\* the monitor thread of object k is in its loop (not in stop_instance)
InLoop(k) == pc[Mon(k)] \in {"m_check", "m_read", "m_poll"}

\* C21: once its instance is out of the engine table, a monitor that is in
\* its loop raises nothing, starts no stop (and so writes no status), and
\* leaves the loop at its next test of the loop condition
C21_MonitorExits ==
    [][\A k \in Objs :
          (InLoop(k) /\ ~Registered(k) /\ pc'[Mon(k)] # pc[Mon(k)]) =>
             /\ pc'[Mon(k)] # "m_raised"
             /\ pc'[Mon(k)] # "s_check"
             /\ pc[Mon(k)] = "m_check" => pc'[Mon(k)] = "m_done"
      ]_vars

\* the monitor threads that are alive and were started for instance id `id`
\* (a monitor looks its instance up by id at every iteration)
Watchers(id) ==
    {k \in Objs : cid[Mon(k)] = id /\ pc[Mon(k)] \notin {"m_none", "m_done", "m_raised"}}

\* C22: every instance in the engine table is watched by exactly one live
\* monitor thread
C22_OneMonitor == \A id \in InstanceKeys : Cardinality(Watchers(id)) = 1

\* C23: handling a start, stop or status request does not invoke
\* SITLManager.cleanup: no request thread enters cleanup after its handler
\* has returned
C23_NoCleanupPerRequest ==
    [][\A t \in Threads :
          TeardownDue(t) => ~(pc[t] = "idle" /\ pc'[t] \in {"sa_call", "ec_call"})
      ]_vars

\* C24: a manager operation that has taken the manager lock eventually
\* releases it
C24_LockReleased == \A t \in Threads : (lock = t) ~> (lock = 0)

\* C25: when the engine's start_instance raises, no process that this start
\* call spawned is still running
C25_FailedStartKillsProcesses ==
    [][\A t \in Threads :
          (InEngineStart(t) /\ pc'[t] = "idle" /\ obj[t] # 0) =>
             /\ procs'[obj[t]].px4 # "alive"
             /\ procs'[obj[t]].router # "alive"
      ]_vars

\* C26: a manager start with the id of an instance that is no longer in the
\* engine table is not refused as a duplicate, and a manager stop on such an
\* id returns false and leaves no mapping entry for it
C26_IdReusable ==
    [][\A t \in Threads, id \in Ids :
          /\ (\E v \in BOOLEAN : MgrStart(t, "px4", v, id) /\ ~InInstances(id)) =>
                result'[t].val # "DuplicateInstance"
          /\ (result'[t].op = "stop" /\ result'[t].id = id /\ ~InInstances(id)') =>
                (result'[t].val = "false" => instance_registry'[id] = "")
      ]_vars

====
